---- MODULE Spec2Model ----
(***************************************************************************)
(* Model of train.py: the AdaIN training script.  The script is one        *)
(* sequential process; pc is its position.  The style-transfer network,    *)
(* the image decoder and the metrics backend are collaborators and are     *)
(* modelled by their observable effect on the script's state (a count of   *)
(* optimizer steps stands for the decoder parameters, a serial number and  *)
(* the list of dataset indices stand for a batch tensor).                  *)
(***************************************************************************)
EXTENDS Integers, Sequences, FiniteSets, TLC

(* ------------------------------ bounds --------------------------------- *)
\* largest --max_iter explored
MaxIter == 5
\* --max_iter of the runs that explore one input directory
DataIter == 1
\* --max_iter of the runs over directories of different sizes
MixedIter == 2
\* largest --save_model_interval / --loss_print_interval explored
MaxInterval == 3
\* largest --batch_size explored
MaxBatch == 3
\* largest number of files in an input directory
MaxFiles == 3
\* precision (bits of significand) of the binary floating point the
\* learning rate is computed in; stands for the 53 bits of a Python float
MantBits == 4
\* largest index magnitude handed to FlatFolderDataset.__getitem__
MaxIndex == 4

(* ------------------- floating point (Python float) --------------------- *)
\* A non-negative float is [m, e] = m * 2^e with 2^(MantBits-1) <= m < 2^MantBits,
\* or m = 0.  Every operation rounds the exact result to nearest, ties to even.
Pow2(k) == 2 ^ k

FZero == [m |-> 0, e |-> 0]

Num(f) == IF f.e >= 0 THEN f.m * Pow2(f.e) ELSE f.m
Den(f) == IF f.e >= 0 THEN 1 ELSE Pow2(0 - f.e)

\* exponent range searched when normalising; wide enough for every value met
ExpRange == (0 - 12)..12

\* n / (d * 2^e) as an exact fraction <<numerator, denominator>>
Scaled(n, d, e) == IF e >= 0 THEN <<n, d * Pow2(e)>> ELSE <<n * Pow2(0 - e), d>>

\* the exponent e with 2^(MantBits-1) <= n / (d * 2^e) < 2^MantBits
NormExp(n, d) ==
    CHOOSE e \in ExpRange :
        LET s == Scaled(n, d, e)
        IN  /\ Pow2(MantBits - 1) * s[2] <= s[1]
            /\ s[1] < Pow2(MantBits) * s[2]

\* round-to-nearest, ties-to-even, of n / d given its exponent e: the
\* quotient by 2^e is cut to an integer significand, a tie goes to the even one
Nearest[n \in Nat, d \in Nat, e \in Int] ==
    LET s  == Scaled(n, d, e)
        q  == s[1] \div s[2]
        r  == s[1] % s[2]
        up == \/ 2 * r > s[2]
              \/ (2 * r = s[2] /\ q % 2 = 1)
        m  == IF up THEN q + 1 ELSE q
    IN  IF m = Pow2(MantBits)
        THEN [m |-> Pow2(MantBits - 1), e |-> e + 1]
        ELSE [m |-> m, e |-> e]

\* the float nearest to the exact value n / d  (n >= 0, d > 0)
Exact[n \in Nat, d \in Nat] ==
    IF n = 0 THEN FZero ELSE Nearest[n, d, NormExp(n, d)]

\* an operation's exact result is computed once, then rounded
Round(n, d) == Exact[n, d]

IntToFloat(k) == Round(k, 1)
FOne == IntToFloat(1)
FAdd(x, y) == Round(Num(x) * Den(y) + Num(y) * Den(x), Den(x) * Den(y))
FMul(x, y) == Round(Num(x) * Num(y), Den(x) * Den(y))
FDiv(x, y) == Round(Num(x) * Den(y), Den(x) * Num(y))
FLt(x, y) == Num(x) * Den(y) < Num(y) * Den(x)
FLe(x, y) == Num(x) * Den(y) <= Num(y) * Den(x)

\* the rate multiplied by the decay term instead of divided by it
Rate_Grow(base, decay, iteration_count) ==
    FMul(base, FAdd(FOne, FMul(decay, IntToFloat(iteration_count))))

\* lr = args.lr / (1.0 + args.lr_decay * iteration_count)
Rate(base, decay, iteration_count) ==
    FDiv(base, FAdd(FOne, FMul(decay, IntToFloat(iteration_count))))

\* values of --lr (positive) and --lr_decay (non-negative) explored
LrValues == {Round(1, 1), Round(3, 4), Round(5, 8)}
DecayValues == {FZero, Round(1, 2), Round(1, 8), Round(1, 64)}

(* ----------------------------- configuration --------------------------- *)
Streams == {"train", "val", "style"}

\* a directory of the file system: absent, or a flat listing of files, each
\* decodable ("ok") or not ("bad")
NoDir == [exists |-> FALSE, files |-> <<>>]
Dir(files) == [exists |-> TRUE, files |-> files]
OkDir(n) == Dir([k \in 1..n |-> "ok"])

RECURSIVE SeqsUpTo(_, _)
SeqsUpTo(S, n) ==
    IF n = 0 THEN {<<>>}
    ELSE LET shorter == SeqsUpTo(S, n - 1)
         IN  shorter \cup {Append(q, x) : q \in {r \in shorter : Len(r) = n - 1}, x \in S}

AllDirs == {NoDir} \cup {Dir(f) : f \in SeqsUpTo({"ok", "bad"}, MaxFiles)}
OkDirs == {OkDir(n) : n \in 0..MaxFiles}

\* the parsed command line (args) together with the directories it names
MkArgs(mi, smi, lpi, bs, lr, dec, tr, va, st) ==
    [max_iter |-> mi, save_model_interval |-> smi, loss_print_interval |-> lpi,
     batch_size |-> bs, lr |-> lr, lr_decay |-> dec,
     train_content_dir |-> tr, val_content_dir |-> va, style_dir |-> st]

\* interval and iteration options, one file per directory
ScheduleArgs ==
    {MkArgs(mi, smi, lpi, 1, Round(1, 1), Round(1, 2), OkDir(1), OkDir(1), OkDir(1)) :
        mi \in 0..MaxIter, smi \in 0..MaxInterval, lpi \in 0..MaxInterval}

\* learning-rate options
RateArgs ==
    {MkArgs(3, 2, 1, 1, lr, dec, OkDir(1), OkDir(1), OkDir(1)) :
        lr \in LrValues, dec \in DecayValues}

\* one input directory varies (absent, empty, undecodable files), any batch size
OneDirArgs ==
    {MkArgs(DataIter, 2, 1, bs, Round(1, 1), Round(1, 2), tr, OkDir(1), OkDir(1)) :
        bs \in 1..MaxBatch, tr \in AllDirs}
    \cup
    {MkArgs(DataIter, 2, 1, bs, Round(1, 1), Round(1, 2), OkDir(1), va, OkDir(1)) :
        bs \in 1..MaxBatch, va \in AllDirs}
    \cup
    {MkArgs(DataIter, 2, 1, bs, Round(1, 1), Round(1, 2), OkDir(1), OkDir(1), st) :
        bs \in 1..MaxBatch, st \in AllDirs}

\* directories of different sizes side by side
MixedArgs ==
    {MkArgs(MixedIter, 2, 1, bs, Round(1, 1), Round(1, 2), OkDir(tr), OkDir(va), OkDir(st)) :
        bs \in 1..2, tr \in 0..2, va \in 0..2, st \in 0..2}

ArgsSet == ScheduleArgs \cup RateArgs \cup OneDirArgs \cup MixedArgs

(* -------------------------------- state -------------------------------- *)
VARIABLES
    args,          \* the parsed command line (lines 82-118)
    pc,            \* position of the script
    error,         \* the uncaught exception that ended the run, or "none"
    rng,           \* process-wide random state: "unseeded" or "seeded"
    seed_calls,    \* number of calls of seed_everything
    constructed,   \* objects constructed so far, each with the rng state then
    save_dir,      \* files of the checkpoint directory
    writer,        \* the SummaryWriter: scalars recorded, and whether closed
    stdout,        \* progress lines printed, by completed iteration count
    dataset,       \* per stream: the FlatFolderDataset (its paths)
    sampler,       \* per stream: the InfiniteSamplerWrapper iterator state
    loader,        \* per stream: the DataLoader iterator
    emitted,       \* per stream: every index the sampler has emitted
    optimizer,     \* Adam: param_groups and number of steps taken
    network,       \* mode, gradient state, number of parameter updates
    i,             \* loop variable of the training loop
    cur_lr,        \* line 174
    batches,       \* style_images, train_content_images, val_content_images
    losses,        \* train_loss / val_loss of the current iteration
    steps,         \* what the current iteration has done so far, in order
    saved,         \* checkpoint writes of this run, in order
    api            \* last direct call of the dataset interface and its result

vars == <<args, pc, error, rng, seed_calls, constructed, save_dir, writer, stdout,
          dataset, sampler, loader, emitted, optimizer, network, i, cur_lr,
          batches, losses, steps, saved, api>>

NoBatch == [stream |-> "none", serial |-> 0, idx |-> <<>>, items |-> <<>>]
NoDataset == [built |-> FALSE, root |-> NoDir, paths |-> <<>>]
NoSampler == [built |-> FALSE, num_samples |-> 0, order |-> <<>>, pos |-> 0, draws |-> 0]
NoLoader == [built |-> FALSE, batch_size |-> 0, pulls |-> 0]
NoLoss == [mode |-> "none", content |-> 0, style |-> 0]
NoCall == [op |-> "none", index |-> 0, ok |-> TRUE, value |-> 0, exc |-> "none"]

\* a checkpoint file: name decoder_iter_<name>.pth.tar, the number of
\* optimizer steps its parameters have seen, and the run that wrote it
Ckpt(name, updates, run) == [name |-> name, updates |-> updates, run |-> run]

\* the checkpoint directory before the run: empty, or holding a file of an
\* earlier run
OldSaveDirs == {{}, {Ckpt(2, 2, "earlier")}}

InitCommon ==
    /\ error = "none"
    /\ rng = "unseeded"
    /\ seed_calls = 0
    /\ constructed = <<>>
    /\ writer = [open |-> FALSE, closed |-> 0, scalars |-> <<>>]
    /\ stdout = <<>>
    /\ dataset = [s \in Streams |-> NoDataset]
    /\ sampler = [s \in Streams |-> NoSampler]
    /\ loader = [s \in Streams |-> NoLoader]
    /\ emitted = [s \in Streams |-> <<>>]
    /\ optimizer = [built |-> FALSE, param_groups |-> <<>>, steps |-> 0]
    /\ network = [built |-> FALSE, mode |-> "train", grad |-> "none", updates |-> 0]
    /\ i = 0
    /\ cur_lr = FZero
    /\ batches = [s \in Streams |-> NoBatch]
    /\ losses = [m \in {"train", "val"} |-> NoLoss]
    /\ steps = <<>>
    /\ saved = <<>>
    /\ api = NoCall

\* the runs over the interval options start with either checkpoint directory
Init ==
    /\ args \in ArgsSet
    /\ save_dir \in (IF args \in ScheduleArgs THEN OldSaveDirs ELSE {{}})
    /\ pc = "import"
    /\ InitCommon
(* ------------------------------- start-up ------------------------------ *)
\* the exception caught and the failing statement tried again
Fail_Retry(exc) ==
    /\ pc' = pc
    /\ error' = exc

\* an uncaught exception ends the script where it is raised
Fail(exc) ==
    /\ pc' = "failed"
    /\ error' = exc

Built(obj) == [obj |-> obj, rng |-> rng]

\* lines 16-17: importing net runs its module body, which builds the
\* module attributes net.decoder and net.vgg read at lines 128-129
ImportNet ==
    /\ pc = "import"
    /\ pc' = "seed"
    /\ constructed' = constructed \o <<Built("decoder"), Built("vgg")>>
    /\ UNCHANGED <<args, error, rng, seed_calls, save_dir, writer, stdout, dataset,
                   sampler, loader, emitted, optimizer, network, i, cur_lr,
                   batches, losses, steps, saved, api>>

\* lines 25-34 called at line 120
seed_everything ==
    /\ pc = "seed"
    /\ pc' = "dirs"
    /\ rng' = "seeded"
    /\ seed_calls' = seed_calls + 1
    /\ UNCHANGED <<args, error, constructed, save_dir, writer, stdout, dataset,
                   sampler, loader, emitted, optimizer, network, i, cur_lr,
                   batches, losses, steps, saved, api>>

\* lines 121-126: mkdir(exist_ok=True) keeps what the directory holds
MakeDirs ==
    /\ pc = "dirs"
    /\ pc' = "network"
    /\ writer' = [writer EXCEPT !.open = TRUE]
    /\ constructed' = Append(constructed, Built("writer"))
    /\ UNCHANGED <<args, error, rng, seed_calls, save_dir, stdout, dataset,
                   sampler, loader, emitted, optimizer, network, i, cur_lr,
                   batches, losses, steps, saved, api>>

\* lines 128-134
BuildNetwork ==
    /\ pc = "network"
    /\ pc' = "datasets"
    /\ network' = [network EXCEPT !.built = TRUE]
    /\ constructed' = Append(constructed, Built("network"))
    /\ UNCHANGED <<args, error, rng, seed_calls, save_dir, writer, stdout, dataset,
                   sampler, loader, emitted, optimizer, i, cur_lr,
                   batches, losses, steps, saved, api>>

\* line 131: torch.load(args.vgg) on an unreadable weights file
LoadWeightsFails ==
    /\ pc = "network"
    /\ Fail("FileNotFoundError")
    /\ UNCHANGED <<args, rng, seed_calls, constructed, save_dir, writer, stdout,
                   dataset, sampler, loader, emitted, optimizer, network, i, cur_lr,
                   batches, losses, steps, saved, api>>

(* --------------------------- FlatFolderDataset -------------------------- *)
\* Path(root).glob("*"): the direct children of root, in listing order; a
\* root that does not exist yields no path and raises nothing
Glob(root) == IF root.exists THEN [k \in 1..Len(root.files) |-> k] ELSE <<>>

\* FlatFolderDataset.__init__
FlatFolderDataset(root) == [built |-> TRUE, root |-> root, paths |-> Glob(root)]

\* FlatFolderDataset.__len__
DatasetLen(ds) == Len(ds.paths)

\* self.paths[index] of a Python list: 0-based, negative indices count from
\* the end, anything else raises IndexError
ListIndex(list, index) ==
    IF 0 <= index /\ index < Len(list)
    THEN [ok |-> TRUE, result |-> list[index + 1]]
    ELSE IF 0 - Len(list) <= index /\ index < 0
    THEN [ok |-> TRUE, result |-> list[Len(list) + index + 1]]
    ELSE [ok |-> FALSE, result |-> "IndexError"]

\* FlatFolderDataset.__getitem__: the image is named by the path it was
\* decoded from; Image.open(...).convert raises on an undecodable file
GetItem(ds, index) ==
    LET path == ListIndex(ds.paths, index)
    IN  IF ~path.ok THEN path
        ELSE IF ds.root.files[path.result] = "bad"
        THEN [ok |-> FALSE, result |-> "UnidentifiedImageError"]
        ELSE [ok |-> TRUE, result |-> path.result]

RootOf(s) ==
    CASE s = "train" -> args.train_content_dir
      [] s = "val" -> args.val_content_dir
      [] s = "style" -> args.style_dir

\* lines 140-142 with the validation dataset built over the training directory
MakeDatasets_WrongDir ==
    /\ pc = "datasets"
    /\ pc' = "loader_train"
    /\ dataset' = [s \in Streams |->
                    FlatFolderDataset(RootOf(IF s = "val" THEN "train" ELSE s))]
    /\ constructed' = constructed \o
            <<Built("train_content_dataset"), Built("val_content_dataset"),
              Built("style_dataset")>>
    /\ UNCHANGED <<args, error, rng, seed_calls, save_dir, writer, stdout,
                   sampler, loader, emitted, optimizer, network, i, cur_lr,
                   batches, losses, steps, saved, api>>

\* lines 140-142
MakeDatasets ==
    /\ pc = "datasets"
    /\ pc' = "loader_train"
    /\ dataset' = [s \in Streams |-> FlatFolderDataset(RootOf(s))]
    /\ constructed' = constructed \o
            <<Built("train_content_dataset"), Built("val_content_dataset"),
              Built("style_dataset")>>
    /\ UNCHANGED <<args, error, rng, seed_calls, save_dir, writer, stdout,
                   sampler, loader, emitted, optimizer, network, i, cur_lr,
                   batches, losses, steps, saved, api>>
(* ------------------------- InfiniteSamplerWrapper ----------------------- *)
\* sampling with replacement instead of permuting
Perms_Replace(n) == [1..n -> 0..(n - 1)]

\* the permutations of [0, n), as sequences
Perms(n) ==
    {p \in [1..n -> 0..(n - 1)] : \A a, b \in 1..n : a # b => p[a] # p[b]}

\* construction over a dataset: N = len(dataset) must be at least 1
InfiniteSamplerWrapper(ds) ==
    IF DatasetLen(ds) = 0
    THEN [ok |-> FALSE, result |-> "EmptyDatasetError"]
    ELSE [ok |-> TRUE,
          result |-> [built |-> TRUE, num_samples |-> DatasetLen(ds),
                      order |-> <<>>, pos |-> 0, draws |-> 0]]

\* the cursor has emitted all of the current permutation (or none was drawn)
Exhausted(sm) == sm.pos >= Len(sm.order)

\* one index: a fresh permutation is generated when the current one is
\* exhausted, then its elements are emitted in order
SamplerNext(sm, perm) ==
    IF Exhausted(sm)
    THEN [sampler |-> [sm EXCEPT !.order = perm, !.pos = 1, !.draws = @ + 1],
          index |-> perm[1]]
    ELSE [sampler |-> [sm EXCEPT !.pos = @ + 1], index |-> sm.order[sm.pos + 1]]

\* number of fresh permutations the next n indices need
FreshNeeded(sm, n) ==
    LET left == Len(sm.order) - sm.pos
    IN  IF n <= left THEN 0
        ELSE (n - left + sm.num_samples - 1) \div sm.num_samples

(* ------------------------------- DataLoader ----------------------------- *)
\* the batch sampler: the next n indices of the sampler, perms being the
\* permutations the random generator yields on the rollovers met
RECURSIVE Draw(_, _, _, _)
Draw(sm, n, perms, acc) ==
    IF n = 0 THEN [sampler |-> sm, idx |-> acc]
    ELSE LET fresh == Exhausted(sm)
         IN  CHOOSE d \in
                {Draw(nx.sampler, n - 1, IF fresh THEN Tail(perms) ELSE perms,
                      Append(acc, nx.index)) :
                    nx \in {SamplerNext(sm, IF fresh THEN Head(perms) ELSE sm.order)}} :
                TRUE

\* the first exception raised when the indices are fetched, or "none"
RECURSIVE FirstError(_, _)
FirstError(ds, idx) ==
    IF idx = <<>> THEN "none"
    ELSE LET r == GetItem(ds, Head(idx))
         IN  IF r.ok THEN FirstError(ds, Tail(idx)) ELSE r.result

\* the samples stacked into one batch
Collate(ds, idx) == [k \in 1..Len(idx) |-> GetItem(ds, idx[k]).result]

\* next(iter(DataLoader(ds, batch_size, sampler))): batch_size indices are
\* drawn, each is fetched from the dataset, the samples are stacked
NextBatch(s, ld, sm, ds, perms) ==
    CHOOSE b \in
        {LET err == FirstError(ds, d.idx)
         IN  [sampler |-> d.sampler, idx |-> d.idx, error |-> err,
              loader |-> [ld EXCEPT !.pulls = @ + 1],
              batch |-> IF err = "none"
                        THEN [stream |-> s, serial |-> ld.pulls + 1, idx |-> d.idx,
                              items |-> Collate(ds, d.idx)]
                        ELSE NoBatch] :
            d \in {Draw(sm, ld.batch_size, perms, <<>>)}} :
        TRUE

AfterLoader(s) ==
    CASE s = "train" -> "loader_val"
      [] s = "val" -> "loader_style"
      [] s = "style" -> "optimizer"

\* lines 144-168 with batch_size left at the DataLoader default of 1
MakeLoader_DefaultBatch(s) ==
    /\ pc = "loader_" \o s
    /\ LET sm == InfiniteSamplerWrapper(dataset[s])
       IN  IF sm.ok
           THEN /\ sampler' = [sampler EXCEPT ![s] = sm.result]
                /\ loader' = [loader EXCEPT ![s] =
                        [built |-> TRUE, batch_size |-> 1, pulls |-> 0]]
                /\ constructed' = constructed \o
                        <<Built("sampler_" \o s), Built("loader_" \o s)>>
                /\ pc' = AfterLoader(s)
                /\ UNCHANGED error
           ELSE /\ Fail(sm.result)
                /\ UNCHANGED <<sampler, loader, constructed>>
    /\ UNCHANGED <<args, rng, seed_calls, save_dir, writer, stdout, dataset,
                   emitted, optimizer, network, i, cur_lr,
                   batches, losses, steps, saved, api>>

\* lines 144-151, 152-159, 161-168: one iter(DataLoader(..., sampler=
\* InfiniteSamplerWrapper(dataset))) per stream
MakeLoader(s) ==
    /\ pc = "loader_" \o s
    /\ LET sm == InfiniteSamplerWrapper(dataset[s])
       IN  IF sm.ok
           THEN /\ sampler' = [sampler EXCEPT ![s] = sm.result]
                /\ loader' = [loader EXCEPT ![s] =
                        [built |-> TRUE, batch_size |-> args.batch_size, pulls |-> 0]]
                /\ constructed' = constructed \o
                        <<Built("sampler_" \o s), Built("loader_" \o s)>>
                /\ pc' = AfterLoader(s)
                /\ UNCHANGED error
           ELSE /\ Fail(sm.result)
                /\ UNCHANGED <<sampler, loader, constructed>>
    /\ UNCHANGED <<args, rng, seed_calls, save_dir, writer, stdout, dataset,
                   emitted, optimizer, network, i, cur_lr,
                   batches, losses, steps, saved, api>>

\* line 170
MakeOptimizer ==
    /\ pc = "optimizer"
    /\ pc' = "for"
    /\ optimizer' = [built |-> TRUE, param_groups |-> <<[lr |-> args.lr]>>, steps |-> 0]
    /\ constructed' = Append(constructed, Built("optimizer"))
    /\ UNCHANGED <<args, error, rng, seed_calls, save_dir, writer, stdout, dataset,
                   sampler, loader, emitted, network, i, cur_lr,
                   batches, losses, steps, saved, api>>
(* ----------------------------- training loop --------------------------- *)
\* one entry of the record of what the current iteration did
Ev(op, stream, x, y) == [op |-> op, stream |-> stream, x |-> x, y |-> y]

Scalar(tag, value, step) == [tag |-> tag, value |-> value, step |-> step]

\* lines 75-79 decaying the rate the group holds instead of args.lr
adjust_learning_rate_Incremental(opt, iteration_count) ==
    [opt EXCEPT !.param_groups =
        [g \in 1..Len(opt.param_groups) |->
            [opt.param_groups[g] EXCEPT
                !.lr = Rate(opt.param_groups[g].lr, args.lr_decay, iteration_count)]]]

\* lines 75-79
adjust_learning_rate(opt, iteration_count) ==
    LET lr == Rate(args.lr, args.lr_decay, iteration_count)
    IN  [opt EXCEPT !.param_groups =
            [g \in 1..Len(opt.param_groups) |-> [opt.param_groups[g] EXCEPT !.lr = lr]]]

\* line 206 testing the 0-based index instead of the completed count
PrintDue_ZeroBased(it) == it % args.loss_print_interval = 0

\* line 206
PrintDue(it) == (it + 1) % args.loss_print_interval = 0

\* line 211 without the final-iteration clause
SaveDue_NoFinal(it) == (it + 1) % args.save_model_interval = 0

\* line 211
SaveDue(it) == (it + 1) % args.save_model_interval = 0 \/ (it + 1) = args.max_iter

\* line 172 running one iteration too many
ForNext_Inclusive ==
    /\ pc = "for"
    /\ IF i <= args.max_iter
       THEN /\ pc' = "adjust_lr"
            /\ steps' = <<>>
       ELSE /\ pc' = "close"
            /\ UNCHANGED steps
    /\ UNCHANGED <<args, error, rng, seed_calls, constructed, save_dir, writer, stdout,
                   dataset, sampler, loader, emitted, optimizer, network, i, cur_lr,
                   batches, losses, saved, api>>

\* line 172 with the script ending at the end of the loop, line 216 left out
ForNext_SkipClose ==
    /\ pc = "for"
    /\ IF i < args.max_iter
       THEN /\ pc' = "adjust_lr"
            /\ steps' = <<>>
       ELSE /\ pc' = "done"
            /\ UNCHANGED steps
    /\ UNCHANGED <<args, error, rng, seed_calls, constructed, save_dir, writer, stdout,
                   dataset, sampler, loader, emitted, optimizer, network, i, cur_lr,
                   batches, losses, saved, api>>

\* line 172: for i in range(args.max_iter); i is the index of the iteration
\* that runs next (after the loop: the number of iterations run)
ForNext ==
    /\ pc = "for"
    /\ IF i < args.max_iter
       THEN /\ pc' = "adjust_lr"
            /\ steps' = <<>>
       ELSE /\ pc' = "close"
            /\ UNCHANGED steps
    /\ UNCHANGED <<args, error, rng, seed_calls, constructed, save_dir, writer, stdout,
                   dataset, sampler, loader, emitted, optimizer, network, i, cur_lr,
                   batches, losses, saved, api>>

\* lines 173-175
AdjustLR ==
    /\ pc = "adjust_lr"
    /\ pc' = "pull_style"
    /\ optimizer' = adjust_learning_rate(optimizer, i)
    /\ cur_lr' = optimizer'.param_groups[1].lr
    /\ writer' = [writer EXCEPT !.scalars =
                    Append(@, Scalar("Learning rate", cur_lr', i + 1))]
    /\ steps' = Append(steps, Ev("lr", "-", i, 0))
    /\ UNCHANGED <<args, error, rng, seed_calls, constructed, save_dir, stdout,
                   dataset, sampler, loader, emitted, network, i,
                   batches, losses, saved, api>>

\* next(<stream>_iter).to(device): the sampler advances and the batch
\* replaces the stream's variable, or the exception of the fetch ends the run
Pull(s, next) ==
    \E perms \in [1..FreshNeeded(sampler[s], loader[s].batch_size) ->
                    Perms(sampler[s].num_samples)] :
        \E r \in {NextBatch(s, loader[s], sampler[s], dataset[s], perms)} :
            /\ sampler' = [sampler EXCEPT ![s] = r.sampler]
            /\ loader' = [loader EXCEPT ![s] = r.loader]
            /\ emitted' = [emitted EXCEPT ![s] = @ \o r.idx]
            /\ IF r.error = "none"
               THEN /\ batches' = [batches EXCEPT ![s] = r.batch]
                    /\ steps' = Append(steps, Ev("pull", s, r.batch.serial, 0))
                    /\ pc' = next
                    /\ UNCHANGED error
               ELSE /\ Fail(r.error)
                    /\ UNCHANGED <<batches, steps>>

\* line 177
PullStyle ==
    /\ pc = "pull_style"
    /\ Pull("style", "pull_train")
    /\ UNCHANGED <<args, rng, seed_calls, constructed, save_dir, writer, stdout,
                   dataset, optimizer, network, i, cur_lr, losses, saved, api>>

\* lines 180-181
PullTrain ==
    /\ pc = "pull_train"
    /\ Pull("train", "train_forward")
    /\ network' = [network EXCEPT !.mode = "train"]
    /\ UNCHANGED <<args, rng, seed_calls, constructed, save_dir, writer, stdout,
                   dataset, optimizer, i, cur_lr, losses, saved, api>>

\* network(content, style): the losses are named by the batches they are of
Forward(mode, content, style) ==
    [mode |-> mode, content |-> content.serial, style |-> style.serial]

\* lines 182-185
TrainForward ==
    /\ pc = "train_forward"
    /\ pc' = "zero_grad"
    /\ losses' = [losses EXCEPT !["train"] =
                    Forward(network.mode, batches["train"], batches["style"])]
    /\ steps' = Append(steps, Ev("forward", network.mode,
                                 batches["train"].serial, batches["style"].serial))
    /\ UNCHANGED <<args, error, rng, seed_calls, constructed, save_dir, writer, stdout,
                   dataset, sampler, loader, emitted, optimizer, network, i, cur_lr,
                   batches, saved, api>>

\* line 187
ZeroGrad ==
    /\ pc = "zero_grad"
    /\ pc' = "backward"
    /\ network' = [network EXCEPT !.grad = "zero"]
    /\ steps' = Append(steps, Ev("zero_grad", "-", 0, 0))
    /\ UNCHANGED <<args, error, rng, seed_calls, constructed, save_dir, writer, stdout,
                   dataset, sampler, loader, emitted, optimizer, i, cur_lr,
                   batches, losses, saved, api>>

\* line 188 with the optimizer step left out after it
Backward_SkipStep ==
    /\ pc = "backward"
    /\ pc' = "record_train"
    /\ network' = [network EXCEPT !.grad = "train_loss"]
    /\ steps' = Append(steps, Ev("backward", "-", 0, 0))
    /\ UNCHANGED <<args, error, rng, seed_calls, constructed, save_dir, writer, stdout,
                   dataset, sampler, loader, emitted, optimizer, i, cur_lr,
                   batches, losses, saved, api>>

\* line 188
Backward ==
    /\ pc = "backward"
    /\ pc' = "opt_step"
    /\ network' = [network EXCEPT !.grad = "train_loss"]
    /\ steps' = Append(steps, Ev("backward", "-", 0, 0))
    /\ UNCHANGED <<args, error, rng, seed_calls, constructed, save_dir, writer, stdout,
                   dataset, sampler, loader, emitted, optimizer, i, cur_lr,
                   batches, losses, saved, api>>

\* line 189
OptStep ==
    /\ pc = "opt_step"
    /\ pc' = "record_train"
    /\ optimizer' = [optimizer EXCEPT !.steps = @ + 1]
    /\ network' = [network EXCEPT !.updates = @ + 1]
    /\ steps' = Append(steps, Ev("step", "-", 0, 0))
    /\ UNCHANGED <<args, error, rng, seed_calls, constructed, save_dir, writer, stdout,
                   dataset, sampler, loader, emitted, i, cur_lr,
                   batches, losses, saved, api>>

\* lines 191-192
RecordTrain ==
    /\ pc = "record_train"
    /\ pc' = "pull_val"
    /\ writer' = [writer EXCEPT !.scalars = @ \o
                    <<Scalar("train loss_content", losses["train"], i + 1),
                      Scalar("train loss_style", losses["train"], i + 1)>>]
    /\ steps' = Append(steps, Ev("record", "train", 0, 0))
    /\ UNCHANGED <<args, error, rng, seed_calls, constructed, save_dir, stdout,
                   dataset, sampler, loader, emitted, optimizer, network, i, cur_lr,
                   batches, losses, saved, api>>

\* lines 195-197 with next(train_content_iter) where the validation batch is pulled
PullVal_FromTrain ==
    /\ pc = "pull_val"
    /\ Pull("train", "val_forward")
    /\ network' = [network EXCEPT !.mode = "eval"]
    /\ UNCHANGED <<args, rng, seed_calls, constructed, save_dir, writer, stdout,
                   dataset, optimizer, i, cur_lr, losses, saved, api>>

\* lines 195-197
PullVal ==
    /\ pc = "pull_val"
    /\ Pull("val", "val_forward")
    /\ network' = [network EXCEPT !.mode = "eval"]
    /\ UNCHANGED <<args, rng, seed_calls, constructed, save_dir, writer, stdout,
                   dataset, optimizer, i, cur_lr, losses, saved, api>>

\* lines 198-201 with the style stream pulled again for the validation pass
ValForward_Repull ==
    /\ pc = "val_forward"
    /\ pc' = "record_val"
    /\ \E perms \in [1..FreshNeeded(sampler["style"], loader["style"].batch_size) ->
                        Perms(sampler["style"].num_samples)] :
          LET r == NextBatch("style", loader["style"], sampler["style"],
                             dataset["style"], perms)
          IN  /\ r.error = "none"
              /\ sampler' = [sampler EXCEPT !["style"] = r.sampler]
              /\ loader' = [loader EXCEPT !["style"] = r.loader]
              /\ emitted' = [emitted EXCEPT !["style"] = @ \o r.idx]
              /\ batches' = [batches EXCEPT !["style"] = r.batch]
              /\ losses' = [losses EXCEPT !["val"] =
                              Forward(network.mode, batches["val"], r.batch)]
              /\ steps' = steps \o
                      <<Ev("pull", "style", r.batch.serial, 0),
                        Ev("forward", network.mode, batches["val"].serial,
                           r.batch.serial)>>
    /\ UNCHANGED <<args, error, rng, seed_calls, constructed, save_dir, writer, stdout,
                   dataset, optimizer, network, i, cur_lr, saved, api>>

\* lines 198-201 followed by an optimizer step, as in the training part
ValForward_Stepping ==
    /\ pc = "val_forward"
    /\ pc' = "record_val"
    /\ losses' = [losses EXCEPT !["val"] =
                    Forward(network.mode, batches["val"], batches["style"])]
    /\ steps' = Append(steps, Ev("forward", network.mode,
                                 batches["val"].serial, batches["style"].serial))
    /\ optimizer' = [optimizer EXCEPT !.steps = @ + 1]
    /\ network' = [network EXCEPT !.updates = @ + 1]
    /\ UNCHANGED <<args, error, rng, seed_calls, constructed, save_dir, writer, stdout,
                   dataset, sampler, loader, emitted, i, cur_lr,
                   batches, saved, api>>

\* lines 198-201
ValForward ==
    /\ pc = "val_forward"
    /\ pc' = "record_val"
    /\ losses' = [losses EXCEPT !["val"] =
                    Forward(network.mode, batches["val"], batches["style"])]
    /\ steps' = Append(steps, Ev("forward", network.mode,
                                 batches["val"].serial, batches["style"].serial))
    /\ UNCHANGED <<args, error, rng, seed_calls, constructed, save_dir, writer, stdout,
                   dataset, sampler, loader, emitted, optimizer, network, i, cur_lr,
                   batches, saved, api>>

\* lines 203-204
RecordVal ==
    /\ pc = "record_val"
    /\ pc' = "print"
    /\ writer' = [writer EXCEPT !.scalars = @ \o
                    <<Scalar("val loss_content", losses["val"], i + 1),
                      Scalar("val loss_style", losses["val"], i + 1)>>]
    /\ steps' = Append(steps, Ev("record", "val", 0, 0))
    /\ UNCHANGED <<args, error, rng, seed_calls, constructed, save_dir, stdout,
                   dataset, sampler, loader, emitted, optimizer, network, i, cur_lr,
                   batches, losses, saved, api>>

\* lines 182, 188, 198: the network raising in a forward or backward pass
ComputeFails ==
    /\ pc \in {"train_forward", "backward", "val_forward"}
    /\ Fail("RuntimeError")
    /\ UNCHANGED <<args, rng, seed_calls, constructed, save_dir, writer, stdout,
                   dataset, sampler, loader, emitted, optimizer, network, i, cur_lr,
                   batches, losses, steps, saved, api>>

\* lines 206-209; a modulus of 0 raises
PrintProgress ==
    /\ pc = "print"
    /\ IF args.loss_print_interval = 0
       THEN /\ Fail("ZeroDivisionError")
            /\ UNCHANGED <<stdout, steps>>
       ELSE /\ pc' = "save"
            /\ UNCHANGED error
            /\ IF PrintDue(i)
               THEN /\ stdout' = Append(stdout, i + 1)
                    /\ steps' = Append(steps, Ev("print", "-", i + 1, 0))
               ELSE UNCHANGED <<stdout, steps>>
    /\ UNCHANGED <<args, rng, seed_calls, constructed, save_dir, writer,
                   dataset, sampler, loader, emitted, optimizer, network, i, cur_lr,
                   batches, losses, saved, api>>

\* torch.save(state, path): the file of that name is created or replaced
TorchSave(dir, name, updates) ==
    {f \in dir : f.name # name} \cup {Ckpt(name, updates, "this")}

\* lines 211-215 naming the file by the 0-based index i
Checkpoint_ZeroIndexed ==
    /\ pc = "save"
    /\ IF args.save_model_interval = 0
       THEN /\ Fail("ZeroDivisionError")
            /\ UNCHANGED <<save_dir, saved, steps, i>>
       ELSE /\ pc' = "for"
            /\ i' = i + 1
            /\ UNCHANGED error
            /\ IF SaveDue(i)
               THEN /\ save_dir' = TorchSave(save_dir, i, network.updates)
                    /\ saved' = Append(saved, i)
                    /\ steps' = Append(steps, Ev("save", "-", i, 0))
               ELSE UNCHANGED <<save_dir, saved, steps>>
    /\ UNCHANGED <<args, rng, seed_calls, constructed, writer, stdout,
                   dataset, sampler, loader, emitted, optimizer, network, cur_lr,
                   batches, losses, api>>

\* lines 211-215, then the loop takes the next index; the modulus is
\* evaluated first and raises when the interval is 0
Checkpoint ==
    /\ pc = "save"
    /\ IF args.save_model_interval = 0
       THEN /\ Fail("ZeroDivisionError")
            /\ UNCHANGED <<save_dir, saved, steps, i>>
       ELSE /\ pc' = "for"
            /\ i' = i + 1
            /\ UNCHANGED error
            /\ IF SaveDue(i)
               THEN /\ save_dir' = TorchSave(save_dir, i + 1, network.updates)
                    /\ saved' = Append(saved, i + 1)
                    /\ steps' = Append(steps, Ev("save", "-", i + 1, 0))
               ELSE UNCHANGED <<save_dir, saved, steps>>
    /\ UNCHANGED <<args, rng, seed_calls, constructed, writer, stdout,
                   dataset, sampler, loader, emitted, optimizer, network, cur_lr,
                   batches, losses, api>>

\* line 216
CloseWriter ==
    /\ pc = "close"
    /\ pc' = "done"
    /\ writer' = [writer EXCEPT !.open = FALSE, !.closed = @ + 1]
    /\ UNCHANGED <<args, error, rng, seed_calls, constructed, save_dir, stdout,
                   dataset, sampler, loader, emitted, optimizer, network, i, cur_lr,
                   batches, losses, steps, saved, api>>

Next ==
    \/ ImportNet
    \/ seed_everything
    \/ MakeDirs
    \/ BuildNetwork
    \/ LoadWeightsFails
    \/ MakeDatasets
    \/ \E s \in Streams : MakeLoader(s)
    \/ MakeOptimizer
    \/ ForNext
    \/ AdjustLR
    \/ PullStyle
    \/ PullTrain
    \/ TrainForward
    \/ ZeroGrad
    \/ Backward
    \/ OptStep
    \/ RecordTrain
    \/ PullVal
    \/ ValForward
    \/ RecordVal
    \/ ComputeFails
    \/ PrintProgress
    \/ Checkpoint
    \/ CloseWriter

Spec == Init /\ [][Next]_vars

\* the script is one thread that always executes its next statement
SpecFair == Init /\ [][Next]_vars /\ WF_vars(Next)
(* --------------------- the dataset interface, called directly ---------- *)
Call(op, index, r) ==
    [op |-> op, index |-> index, ok |-> r.ok,
     value |-> IF r.ok THEN r.result ELSE 0,
     exc |-> IF r.ok THEN "none" ELSE r.result]

\* FlatFolderDataset(root, transform)
ApiConstruct ==
    /\ pc = "api"
    /\ ~dataset["train"].built
    /\ dataset' = [dataset EXCEPT !["train"] = FlatFolderDataset(RootOf("train"))]
    /\ api' = Call("construct", 0, [ok |-> TRUE, result |-> 0])
    /\ UNCHANGED <<args, pc, error, rng, seed_calls, constructed, save_dir, writer,
                   stdout, sampler, loader, emitted, optimizer, network, i, cur_lr,
                   batches, losses, steps, saved>>

\* len(dataset)
ApiLen ==
    /\ pc = "api"
    /\ dataset["train"].built
    /\ api' = Call("len", 0, [ok |-> TRUE, result |-> DatasetLen(dataset["train"])])
    /\ UNCHANGED <<args, pc, error, rng, seed_calls, constructed, save_dir, writer,
                   stdout, dataset, sampler, loader, emitted, optimizer, network, i,
                   cur_lr, batches, losses, steps, saved>>

\* dataset[index]
ApiGetItem ==
    /\ pc = "api"
    /\ dataset["train"].built
    /\ \E index \in (0 - MaxIndex)..MaxIndex :
            api' = Call("get", index, GetItem(dataset["train"], index))
    /\ UNCHANGED <<args, pc, error, rng, seed_calls, constructed, save_dir, writer,
                   stdout, dataset, sampler, loader, emitted, optimizer, network, i,
                   cur_lr, batches, losses, steps, saved>>

InitDataset ==
    /\ args \in {MkArgs(0, 1, 1, 1, Round(1, 1), FZero, tr, OkDir(1), OkDir(1)) :
                    tr \in AllDirs}
    /\ save_dir = {}
    /\ pc = "api"
    /\ InitCommon

NextDataset ==
    \/ ApiConstruct
    \/ ApiLen
    \/ ApiGetItem

SpecDataset == InitDataset /\ [][NextDataset]_vars
(* ------------------------------ properties ----------------------------- *)
\* the completed-iteration counts this run wrote a checkpoint for
SavedSet == {saved[k] : k \in 1..Len(saved)}

Count(seq, x) == Cardinality({k \in 1..Len(seq) : seq[k] = x})

\* the run has completed at least one iteration and is between iterations
BetweenIterations == pc \in {"for", "close", "done"} /\ i > 0

\* C1: after i completed iterations, a checkpoint was written during
\* iteration n-1 (n in 1..i) if and only if n % save_model_interval = 0 or
\* n = max_iter; every checkpoint written belongs to a completed iteration
\* and its file is in the checkpoint directory.
C1_CheckpointIffDue ==
    /\ \A n \in 1..i :
          (n \in SavedSet) <=>
              (n % args.save_model_interval = 0 \/ n = args.max_iter)
    /\ \A n \in SavedSet :
          /\ n \in 1..i
          /\ \E f \in save_dir : f.name = n /\ f.run = "this"

\* interval 2 and 5 iterations: checkpoints at 2, 4 and the final 5 only
C1_Witness ==
    /\ pc = "done"
    /\ args.max_iter = 5
    /\ args.save_model_interval = 2
    /\ saved = <<2, 4, 5>>

StylePulls == {k \in 1..Len(steps) : steps[k].op = "pull" /\ steps[k].stream = "style"}

Forwards == {k \in 1..Len(steps) : steps[k].op = "forward"}

\* C2: within an iteration the style stream is pulled at most once and,
\* once the iteration is past its style pull, exactly once; every forward
\* pass of the iteration (training and validation) comes after that pull
\* and receives the batch it delivered; over the run the style stream has
\* been pulled once per completed iteration.
C2_SameStyleBatch ==
    /\ Cardinality(StylePulls) <= 1
    /\ \A f \in Forwards : \E p \in StylePulls : p < f /\ steps[f].y = steps[p].x
    /\ \A f, g \in Forwards : \A p \in StylePulls : ~(f < p /\ p < g)
    /\ (pc \in {"record_val", "print", "save"} \/ BetweenIterations) =>
          /\ Cardinality(StylePulls) = 1
          /\ \E f, g \in Forwards :
                /\ f < g
                /\ steps[f].stream = "train"
                /\ steps[g].stream = "eval"
                /\ steps[f].y = steps[g].y
          /\ losses["val"].style = losses["train"].style
    /\ pc = "for" => loader["style"].pulls = i

\* second iteration, validation pass done: both passes saw style batch 2
C2_Witness ==
    /\ pc = "record_val"
    /\ i = 1
    /\ losses["train"] = [mode |-> "train", content |-> 2, style |-> 2]
    /\ losses["val"] = [mode |-> "eval", content |-> 2, style |-> 2]

\* the c-th block of n indices of seq (the last one possibly shorter)
Block(seq, n, c) ==
    {k \in 1..Len(seq) : (c - 1) * n < k /\ k <= c * n}

\* C3: the indices a sampler over N >= 1 samples has emitted are a
\* concatenation of permutations of [0, N): within each block of N, every
\* index is in [0, N) and none repeats (so a full block holds each index
\* exactly once); a permutation has been drawn only for each block begun,
\* and the block in progress is a prefix of the current permutation.
C3_ConcatenationOfPermutations ==
    \A s \in Streams :
        sampler[s].built =>
            LET n == sampler[s].num_samples
                e == emitted[s]
                blocks == (Len(e) + n - 1) \div n
            IN  /\ n >= 1
                /\ \A k \in 1..Len(e) : e[k] \in 0..(n - 1)
                /\ \A c \in 1..blocks :
                      \A a, b \in Block(e, n, c) : a # b => e[a] # e[b]
                /\ \A c \in 1..(Len(e) \div n) :
                      {e[k] : k \in Block(e, n, c)} = 0..(n - 1)
                /\ sampler[s].draws = blocks
                /\ blocks > 0 =>
                      \A k \in Block(e, n, blocks) :
                          e[k] = sampler[s].order[k - (blocks - 1) * n]

\* two samples, more than one full cycle emitted
C3_Witness ==
    /\ sampler["train"].built
    /\ sampler["train"].num_samples = 2
    /\ Len(emitted["train"]) = 4
    /\ sampler["train"].draws = 2
    /\ sampler["train"].pos = 2

\* C4: every batch a loader has delivered holds exactly batch_size items,
\* and each pull takes exactly batch_size indices from its sampler.
C4_BatchSizeExact ==
    \A s \in Streams :
        /\ batches[s] # NoBatch =>
              /\ Len(batches[s].items) = args.batch_size
              /\ Len(batches[s].idx) = args.batch_size
        /\ loader[s].built => Len(emitted[s]) = loader[s].pulls * args.batch_size

\* batch of 3 over 2 samples: larger than the dataset and across a rollover
C4_Witness ==
    /\ args.batch_size = 3
    /\ sampler["style"].built
    /\ sampler["style"].num_samples = 2
    /\ loader["style"].pulls = 1
    /\ Len(batches["style"].items) = 3
    /\ sampler["style"].draws = 2
\* the learning rates recorded so far, one per iteration started
IsLearningRate(r) == r.tag = "Learning rate"

LrSeries == SelectSeq(writer.scalars, IsLearningRate)

\* C5 as stated: the rate of iteration 0 is the base rate; with decay > 0
\* each rate is strictly below the one before it; with decay = 0 the rates
\* are all equal.
C5_StrictlyDecreasing ==
    /\ Len(LrSeries) >= 1 => LrSeries[1].value = args.lr
    /\ \A k \in 1..(Len(LrSeries) - 1) :
          IF args.lr_decay = FZero
          THEN LrSeries[k + 1].value = LrSeries[k].value
          ELSE FLt(LrSeries[k + 1].value, LrSeries[k].value)

\* C5 (amended): the rate of iteration 0 is the base rate; with decay > 0
\* the rates never increase from one iteration to the next (they can stay
\* equal where decay * i is lost in the rounding of 1 + decay * i); with
\* decay = 0 the rates are all equal.
C5_NonIncreasing ==
    /\ Len(LrSeries) >= 1 => LrSeries[1].value = args.lr
    /\ \A k \in 1..(Len(LrSeries) - 1) :
          IF args.lr_decay = FZero
          THEN LrSeries[k + 1].value = LrSeries[k].value
          ELSE FLe(LrSeries[k + 1].value, LrSeries[k].value)

\* decay 1/2: three rates recorded, the third below the first
C5_Witness ==
    /\ args.lr_decay = Round(1, 2)
    /\ Len(LrSeries) = 3
    /\ LrSeries[1].value = args.lr
    /\ FLt(LrSeries[3].value, LrSeries[1].value)

\* C6: a progress line for completed count n is printed exactly once if
\* n % loss_print_interval = 0 and never otherwise, for every iteration that
\* has passed its print step; nothing is printed for an iteration that has
\* not reached it.
C6_PrintIffDue ==
    LET passed == IF pc = "save" THEN i + 1 ELSE i
    IN  /\ \A n \in 1..passed :
              Count(stdout, n) = (IF n % args.loss_print_interval = 0 THEN 1 ELSE 0)
        /\ \A k \in 1..Len(stdout) :
              /\ stdout[k] % args.loss_print_interval = 0
              /\ stdout[k] <= i + 1
              /\ stdout[k] = i + 1 => pc \in {"save", "failed"}

\* interval 2, five iterations: lines after iterations 2 and 4 only
C6_Witness ==
    /\ pc = "done"
    /\ args.loss_print_interval = 2
    /\ args.max_iter = 5
    /\ stdout = <<2, 4>>

UpToLoader(s) ==
    {"import", "seed", "dirs", "network", "datasets", "loader_train"}
        \cup (IF s \in {"val", "style"} THEN {"loader_val"} ELSE {})
        \cup (IF s = "style" THEN {"loader_style"} ELSE {})

\* C8: when a configured directory exists and holds no file, the script
\* never gets past the construction of that stream's sampler: the sampler
\* and loader are never built, no iteration starts, no batch is pulled, the
\* run never completes, and the exception of the loader construction is
\* EmptyDatasetError.
C8_EmptyDirFailsAtSampler ==
    \A s \in Streams :
        (RootOf(s).exists /\ RootOf(s).files = <<>>) =>
            /\ pc \in UpToLoader(s) \cup {"failed"}
            /\ ~sampler[s].built
            /\ ~loader[s].built
            /\ i = 0
            /\ steps = <<>>
            /\ \A t \in Streams : loader[t].pulls = 0 /\ emitted[t] = <<>>
            /\ pc = "failed" => error \in {"EmptyDatasetError", "FileNotFoundError"}
            /\ error = "EmptyDatasetError" => dataset[s].built /\ DatasetLen(dataset[s]) = 0

\* empty validation directory: the training loader is built, then the run
\* fails constructing the validation sampler
C8_Witness ==
    /\ args.val_content_dir = OkDir(0)
    /\ loader["train"].built
    /\ pc = "failed"
    /\ error = "EmptyDatasetError"
    /\ i = 0

\* C9 as stated: a dataset is never constructed over a directory that does
\* not exist (construction raises), so the script does not get past the
\* dataset constructions and the directory is never taken for an empty one.
C9_MissingDirRaises ==
    \A s \in Streams :
        ~RootOf(s).exists =>
            /\ ~dataset[s].built
            /\ error # "EmptyDatasetError"
            /\ error = "none" => pc \in {"import", "seed", "dirs", "network", "datasets"}

\* C10 as stated: get(index) returns a sample only for 0 <= index < length
\* and raises the index error for every other index.
C10_GetOutOfRangeRaises ==
    api.op = "get" =>
        IF 0 <= api.index /\ api.index < DatasetLen(dataset["train"])
        THEN api.ok \/ api.exc = "UnidentifiedImageError"
        ELSE ~api.ok /\ api.exc = "IndexError"
\* C11 as stated: seed_everything is called at most once, has been called
\* once the script is past line 120, and every object constructed so far
\* (the decoder and the feature extractor of the net module included) was
\* constructed with the random state already seeded.
C11_SeedBeforeConstruction ==
    /\ seed_calls <= 1
    /\ pc \notin {"import", "seed", "api"} => seed_calls = 1
    /\ \A k \in 1..Len(constructed) : constructed[k].rng = "seeded"
\* C13 as stated: no step removes or replaces a file of the checkpoint
\* directory, and every checkpoint write targets a name that no file of the
\* directory has yet (neither one of this run nor one of an earlier run).
C13_NeverOverwritten ==
    [][/\ \A f \in save_dir : f \in save_dir'
       /\ saved' # saved =>
             ~\E f \in save_dir : f.name = saved'[Len(saved')]]_vars
\* what a step of the iteration record is: its operation and, for pulls,
\* forward passes and recordings, the stream or mode it is of
Kind(e) == IF e.op \in {"pull", "forward", "record"} THEN e.op \o ":" \o e.stream ELSE e.op

\* the steps every iteration takes, in the order of the claim
StepOrder ==
    <<"lr", "pull:style", "pull:train", "forward:train", "zero_grad", "backward",
      "step", "record:train", "pull:val", "forward:eval", "record:val">>

StepKinds == [k \in 1..Len(steps) |-> Kind(steps[k])]

\* the record holds every step of an iteration up to the validation record
AllFixedSteps == Len(steps) >= Len(StepOrder)

\* C14: at every moment the steps the current iteration has taken are, in
\* this order and once each: rate update, style pull, train-content pull,
\* training forward, zero-grad, backward, optimizer step, training record,
\* validation pull, validation forward, validation record, then the
\* progress line (if due) and the checkpoint (if due); steps are only ever
\* added one at a time, and an iteration starts (the record is cleared)
\* only at the loop head after the previous iteration has taken all its
\* steps, the periodic ones included when due.
C14_StepOrder ==
    /\ [](LET n == Len(steps)
              fixed == IF n <= Len(StepOrder) THEN n ELSE Len(StepOrder)
              tail == SubSeq(StepKinds, Len(StepOrder) + 1, n)
          IN  /\ SubSeq(StepKinds, 1, fixed) = SubSeq(StepOrder, 1, fixed)
              /\ tail \in {<<>>, <<"print">>, <<"save">>, <<"print", "save">>}
              /\ n >= 1 => steps[1].x = (IF BetweenIterations THEN i - 1 ELSE i)
              /\ BetweenIterations =>
                    /\ AllFixedSteps
                    /\ (\E k \in 1..Len(tail) : tail[k] = "print") <=>
                          (i % args.loss_print_interval = 0)
                    /\ (\E k \in 1..Len(tail) : tail[k] = "save") <=>
                          (i % args.save_model_interval = 0 \/ i = args.max_iter))
    /\ [][steps' # steps =>
            \/ Len(steps') = Len(steps) + 1 /\ SubSeq(steps', 1, Len(steps)) = steps
            \/ /\ steps' = <<>>
               /\ pc = "for"
               /\ i > 0 /\ AllFixedSteps]_vars

\* an iteration that took all thirteen steps, back at the loop head
C14_Witness ==
    /\ pc = "for"
    /\ i = 2
    /\ Len(steps) = 13
    /\ Kind(steps[12]) = "print"
    /\ Kind(steps[13]) = "save"
\* the script is inside the loop body, past the rate update of iteration i
InBody ==
    pc \in {"pull_style", "pull_train", "train_forward", "zero_grad", "backward",
            "opt_step", "record_train", "pull_val", "val_forward", "record_val",
            "print", "save"}

\* C15: from the rate update of iteration i to the end of that iteration
\* (so at its forward passes and its optimizer step) every parameter group
\* holds the rate base / (1 + decay * i) computed from args.lr, whatever
\* the group held before; cur_lr and the "Learning rate" scalar recorded
\* for step i + 1 are that same value.
C15_RateFromBaseAlone ==
    InBody =>
        LET lr == FDiv(args.lr, FAdd(FOne, FMul(args.lr_decay, IntToFloat(i))))
        IN  /\ Len(optimizer.param_groups) >= 1
            /\ \A g \in 1..Len(optimizer.param_groups) : optimizer.param_groups[g].lr = lr
            /\ cur_lr = lr
            /\ Len(LrSeries) = i + 1
            /\ LrSeries[i + 1].value = lr
            /\ LrSeries[i + 1].step = i + 1

\* third iteration, base 1, decay 1/2: the rate at the optimizer step is
\* 1 / (1 + 1/2 * 2) = 1/2, not the 1/3 of decaying the previous rate
C15_Witness ==
    /\ pc = "opt_step"
    /\ i = 2
    /\ args.lr = Round(1, 1)
    /\ args.lr_decay = Round(1, 2)
    /\ optimizer.param_groups[1].lr = Round(1, 2)
\* the script is in iteration i, past its optimizer step
PastOptStep ==
    pc \in {"record_train", "pull_val", "val_forward", "record_val", "print", "save"}

\* C16: the parameters of the network and the state of the optimizer
\* change only in the step taken at optimizer.step() (line 189), which
\* advances both by one update; no other step (the validation pull,
\* forward and record, the progress line, the checkpoint included) changes
\* them; so they have seen one update per completed iteration, plus one
\* when the current iteration is past its optimizer step.
C16_OnlyOptStepUpdates ==
    /\ [](/\ network.updates = optimizer.steps
          /\ pc # "failed" => network.updates = (IF PastOptStep THEN i + 1 ELSE i)
          /\ pc = "failed" => network.updates \in {i, i + 1})
    /\ [][(network.updates' # network.updates \/ optimizer.steps' # optimizer.steps) =>
            /\ pc = "opt_step"
            /\ pc' = "record_train"
            /\ network.updates' = network.updates + 1
            /\ optimizer.steps' = optimizer.steps + 1]_vars

\* third iteration at its checkpoint step: three updates, the last one
\* before the validation phase
C16_Witness ==
    /\ pc = "save"
    /\ i = 2
    /\ network.updates = 3
    /\ optimizer.steps = 3
    /\ network.mode = "eval"
\* C17: every checkpoint file this run has written is named by a completed
\* iteration count n = i + 1 and holds the parameters after exactly n
\* optimizer steps; a checkpoint is written only at the checkpoint step of
\* iteration i, after that iteration's optimizer step, under the name i + 1.
C17_NamedByCompletedCount ==
    /\ [](\A f \in save_dir :
              f.run = "this" => f.updates = f.name /\ f.name \in SavedSet)
    /\ [][saved' # saved =>
            /\ pc = "save"
            /\ saved' = Append(saved, i + 1)
            /\ \E k \in 1..Len(steps) : steps[k].op = "step"
            /\ network.updates = i + 1
            /\ Ckpt(i + 1, i + 1, "this") \in save_dir']_vars

\* checkpoint decoder_iter_3 written in the third iteration (i = 2) with
\* the parameters of three optimizer steps
C17_Witness ==
    /\ pc = "for"
    /\ i = 3
    /\ saved = <<3>>
    /\ Ckpt(3, 3, "this") \in save_dir
\* C18: an exception ends the run where it is raised: the script is in its
\* failed state exactly when an exception was raised, takes no step from
\* there (no retry, no later step of the iteration, no later iteration),
\* and the failing step itself completes no iteration, writes or removes
\* no checkpoint, prints nothing and updates no parameter; so after a
\* failure in iteration i the checkpoints written are those of iterations
\* before i, all still in the checkpoint directory, and the metrics sink
\* was not closed.
C18_FailureTerminates ==
    /\ [](error # "none" <=> pc = "failed")
    /\ [](pc = "failed" =>
            /\ \A n \in SavedSet :
                  /\ n \in 1..i
                  /\ \E f \in save_dir : f.name = n /\ f.run = "this"
            /\ writer.closed = 0)
    /\ [][pc # "failed"]_vars
    /\ [][pc' = "failed" =>
            /\ i' = i
            /\ saved' = saved
            /\ save_dir' = save_dir
            /\ stdout' = stdout
            /\ steps' = steps
            /\ network.updates' = network.updates]_vars

\* the forward or backward pass of the third iteration raised: the
\* checkpoint of iteration 2 is there, nothing later is
C18_Witness ==
    /\ pc = "failed"
    /\ error = "RuntimeError"
    /\ i = 2
    /\ saved = <<2>>
    /\ Ckpt(2, 2, "this") \in save_dir
    /\ Len(steps) >= 3
\* C19: every run ends, completed or failed; a run that completes has
\* executed exactly max_iter iterations, with indices 0..max_iter-1 once
\* each in increasing order (a rate recorded for steps 1..max_iter, one
\* optimizer step each), and has closed the metrics sink exactly once,
\* after the last iteration; the sink is never closed anywhere else; with
\* max_iter = 0 no iteration step is taken and no checkpoint is written.
C19_TerminatesAfterMaxIter ==
    /\ <>(pc = "done" \/ pc = "failed")
    /\ [](pc = "done" =>
            /\ i = args.max_iter
            /\ writer.closed = 1
            /\ ~writer.open
            /\ Len(LrSeries) = args.max_iter
            /\ \A k \in 1..Len(LrSeries) : LrSeries[k].step = k
            /\ network.updates = args.max_iter
            /\ args.max_iter = 0 =>
                  saved = <<>> /\ steps = <<>> /\ writer.scalars = <<>>)
    /\ [](writer.closed <= 1 /\ (writer.closed = 1 => pc = "done"))
    /\ [][writer.closed' # writer.closed =>
            pc = "close" /\ pc' = "done" /\ i = args.max_iter]_vars

\* a completed run of five iterations
C19_Witness ==
    /\ pc = "done"
    /\ args.max_iter = 5
    /\ i = 5
    /\ writer.closed = 1
    /\ Len(LrSeries) = 5

\* the statement that pulls stream s
PullPc(s) ==
    CASE s = "style" -> "pull_style"
      [] s = "train" -> "pull_train"
      [] s = "val" -> "pull_val"

\* C20: the streams are coupled only by being pulled once per iteration.
\* Between iterations, after i completed ones, every stream has delivered i
\* batches, i * batch_size indices; a sampler cycles at the length of its own
\* dataset: it has drawn one permutation per block of that length begun and
\* its cursor is the offset into the last block; and the sampler, loader and
\* emitted indices of a stream change only when that stream is constructed
\* or pulled, a step that leaves the other two streams as they were.
C20_StreamsIndependent ==
    /\ [](pc = "for" =>
            \A s \in Streams :
                /\ loader[s].pulls = i
                /\ Len(emitted[s]) = i * args.batch_size)
    /\ [](\A s \in Streams :
            sampler[s].built =>
                LET n == sampler[s].num_samples
                IN  /\ n = DatasetLen(dataset[s])
                    /\ n >= 1
                    /\ sampler[s].draws = (Len(emitted[s]) + n - 1) \div n
                    /\ sampler[s].draws > 0 =>
                          sampler[s].pos = Len(emitted[s]) - (sampler[s].draws - 1) * n)
    /\ [][\A s \in Streams :
            (sampler[s]' # sampler[s] \/ loader[s]' # loader[s]
                \/ emitted[s]' # emitted[s] \/ batches[s]' # batches[s]) =>
                /\ pc \in {PullPc(s), "loader_" \o s}
                /\ \A t \in Streams \ {s} :
                      /\ sampler[t]' = sampler[t]
                      /\ loader[t]' = loader[t]
                      /\ emitted[t]' = emitted[t]
                      /\ batches[t]' = batches[t]]_vars

\* two iterations done over datasets of 2, 2 and 1 files, batches of 2: the
\* train and validation samplers are in their second cycle, the style one in
\* its fourth
C20_Witness ==
    /\ pc = "for"
    /\ i = 2
    /\ args.batch_size = 2
    /\ \A s \in Streams : loader[s].pulls = 2 /\ Len(emitted[s]) = 4
    /\ sampler["train"].num_samples = 2
    /\ sampler["train"].draws = 2
    /\ sampler["val"].num_samples = 2
    /\ sampler["val"].draws = 2
    /\ sampler["style"].num_samples = 1
    /\ sampler["style"].draws = 4
====
